---- MODULE Spec2Model ----
(***************************************************************************)
(* crypto-profiler: the Sanctions Watchlist Engine (cmd/engine/main.go,    *)
(* here src/unnamed/part_003) and the Risk Investigator                    *)
(* (src/internal/validator/investigator.go).                               *)
(*                                                                         *)
(* Go strings whose characters the code inspects (addresses, feed labels,  *)
(* tickers, validation details) are sequences of one-character strings.    *)
(* Strings the code only copies or compares as a whole (type identifiers,  *)
(* Last-Modified markers, grades, reason categories, format texts) are     *)
(* TLA+ strings.                                                           *)
(***************************************************************************)
EXTENDS Integers, Sequences, FiniteSets, TLC

VARIABLES
    \* ---- watchlist engine: the SQLite database (committed state)
    dbEntries,      \* table sanctioned_addresses: address -> row
    dbMeta,         \* table metadata: key -> value
    \* ---- watchlist engine: the sync goroutine
    syncPc,         \* where startSyncLoop / downloadAndParseOFAC stands
    lastMod,        \* downloadAndParseOFAC: Last-Modified of the GET response
    stream,         \* the records of the response body not yet read
    decoderErr,     \* xml.Decoder: a syntax error was met (it is sticky)
    cryptoTypeMap,  \* downloadAndParseOFAC: type identifier -> ticker
    txEntries,      \* the open write transaction's view of sanctioned_addresses
    txMeta,         \* the open write transaction's view of metadata
    now,            \* downloadAndParseOFAC: time.Now() taken before the loop
    clock,          \* the engine's wall clock, in sync periods
    cycle,          \* how the cycle in progress, or the last one, went
    \* ---- the remote feed (treasury.gov)
    feedDoc,        \* the document served now
    feedLastMod,    \* its Last-Modified header ("" when the header is absent)
    \* ---- watchlist engine: the /check handler
    lastCheck,      \* the last request served and its response
    \* ---- risk investigator
    profile,        \* the *WalletProfile handed to Investigate
    txs,            \* the []Transaction handed to Investigate
    engineCall,     \* what CheckWatchlist returned inside Investigate
    clockReads,     \* the two time.Since(*FirstSeen) readings, in minutes
    invPc           \* "ready" before Investigate, "done" after it

engineVars ==
    <<dbEntries, dbMeta, syncPc, lastMod, stream, decoderErr, cryptoTypeMap,
      txEntries, txMeta, now, clock, cycle, feedDoc, feedLastMod>>

handlerVars ==
    <<lastCheck>>

invVars ==
    <<profile, txs, engineCall, clockReads, invPc>>

vars ==
    <<dbEntries, dbMeta, syncPc, lastMod, stream, decoderErr, cryptoTypeMap,
      txEntries, txMeta, now, clock, cycle, feedDoc, feedLastMod,
      lastCheck, profile, txs, engineCall, clockReads, invPc>>

(***************************************************************************)
(* Strings                                                                 *)
(***************************************************************************)
StrEmpty ==
    <<>>

UpperLetters ==
    <<"A","B","C","D","E","F","G","H","I","J","K","L","M",
      "N","O","P","Q","R","S","T","U","V","W","X","Y","Z">>

LowerLetters ==
    <<"a","b","c","d","e","f","g","h","i","j","k","l","m",
      "n","o","p","q","r","s","t","u","v","w","x","y","z">>

\* unicode.ToLower on the upper-case ASCII letters
LowerCaseOf ==
    [c \in {UpperLetters[i] : i \in DOMAIN UpperLetters} |->
        LowerLetters[CHOOSE i \in DOMAIN UpperLetters : UpperLetters[i] = c]]

ToLowerChar(c) ==
    IF c \in DOMAIN LowerCaseOf THEN LowerCaseOf[c] ELSE c

\* strings.ToLower
ToLower(s) ==
    [i \in 1..Len(s) |-> ToLowerChar(s[i])]

\* strings.EqualFold (ASCII: simple case folding)
EqualFold(s, t) ==
    /\ Len(s) = Len(t)
    /\ \A i \in 1..Len(s) : ToLowerChar(s[i]) = ToLowerChar(t[i])

\* unicode.IsSpace on the characters of the model's alphabet
IsSpace(c) ==
    c \in {" ", "\t", "\n", "\r"}

\* strings.TrimSpace
RECURSIVE TrimLeft(_)
TrimLeft(s) ==
    IF s # <<>> /\ IsSpace(Head(s)) THEN TrimLeft(Tail(s)) ELSE s

RECURSIVE TrimRight(_)
TrimRight(s) ==
    IF s # <<>> /\ IsSpace(s[Len(s)])
    THEN TrimRight(SubSeq(s, 1, Len(s) - 1))
    ELSE s

TrimSpace(s) ==
    TrimRight(TrimLeft(s))

\* strings.Contains
Contains(s, sub) ==
    \E i \in 0..(Len(s) - Len(sub)) : SubSeq(s, i + 1, i + Len(sub)) = sub

\* strings.Split(s, sep) for a one-character separator: the pieces between
\* the separators, in order (always at least one piece)
RECURSIVE SplitFrom(_, _, _)
SplitFrom(s, sep, piece) ==
    IF s = <<>> THEN <<piece>>
    ELSE IF Head(s) = sep THEN <<piece>> \o SplitFrom(Tail(s), sep, <<>>)
    ELSE SplitFrom(Tail(s), sep, Append(piece, Head(s)))

Split(s, sep) ==
    SplitFrom(s, sep, <<>>)

(***************************************************************************)
(* String values of the model                                              *)
(***************************************************************************)
\* "0xd90e2f925da726b50c4ed8d0fb90ad053324f31b"
ThreatAddr ==
    <<"0","x","d","9","0","e","2","f","9","2","5","d","a","7","2","6","b","5",
      "0","c","4","e","d","8","d","0","f","b","9","0","a","d","0","5","3","3",
      "2","4","f","3","1","b">>

\* "0xD90e2F925DA726b50C4Ed8D0Fb90Ad053324F31b"
ThreatAddrMixed ==
    <<"0","x","D","9","0","e","2","F","9","2","5","D","A","7","2","6","b","5",
      "0","C","4","E","d","8","D","0","F","b","9","0","A","d","0","5","3","3",
      "2","4","F","3","1","b">>

\* "Tornado Cash Router"
ThreatLabel ==
    <<"T","o","r","n","a","d","o"," ","C","a","s","h"," ","R","o","u","t","e",
      "r">>

\* "0x098b716b8aaf21512996dc57eb0615e2383e2f96"
AddrSanctioned ==
    <<"0","x","0","9","8","b","7","1","6","b","8","a","a","f","2","1","5","1",
      "2","9","9","6","d","c","5","7","e","b","0","6","1","5","e","2","3","8",
      "3","e","2","f","9","6">>

\* "0x098B716B8Aaf21512996dC57EB0615e2383E2f96"
AddrSanctionedMixed ==
    <<"0","x","0","9","8","B","7","1","6","B","8","A","a","f","2","1","5","1",
      "2","9","9","6","d","C","5","7","E","B","0","6","1","5","e","2","3","8",
      "3","E","2","f","9","6">>

\* "0x52908400098527886e0f7030069857d2e4169ee7"
AddrClean ==
    <<"0","x","5","2","9","0","8","4","0","0","0","9","8","5","2","7","8","8",
      "6","e","0","f","7","0","3","0","0","6","9","8","5","7","d","2","e","4",
      "1","6","9","e","e","7">>

\* "bc1qar0srrr7xfkvy5l643lydnw9re59gtzzwf5mdq"
AddrOddTicker ==
    <<"b","c","1","q","a","r","0","s","r","r","r","7","x","f","k","v","y","5",
      "l","6","4","3","l","y","d","n","w","9","r","e","5","9","g","t","z","z",
      "w","f","5","m","d","q">>

\* "0x71c7656ec7ab88b098defb751b7401b5f6d8976f"
AddrThird ==
    <<"0","x","7","1","c","7","6","5","6","e","c","7","a","b","8","8","b","0",
      "9","8","d","e","f","b","7","5","1","b","7","4","0","1","b","5","f","6",
      "d","8","9","7","6","f">>

\* " | [Warning: Sanctions DB Offline]"
WarnOffline ==
    <<" ","|"," ","[","W","a","r","n","i","n","g",":"," ","S","a","n","c","t",
      "i","o","n","s"," ","D","B"," ","O","f","f","l","i","n","e","]">>

\* "Active"
DetailsActive ==
    <<"A","c","t","i","v","e">>

\* "Digital Currency Address"
MarkerDCA ==
    <<"D","i","g","i","t","a","l"," ","C","u","r","r","e","n","c","y"," ","A",
      "d","d","r","e","s","s">>

\* "Digital Currency Address - USDT-TRON"
LabelTwoDash ==
    <<"D","i","g","i","t","a","l"," ","C","u","r","r","e","n","c","y"," ","A",
      "d","d","r","e","s","s"," ","-"," ","U","S","D","T","-","T","R","O",
      "N">>

\* "Digital Currency Address - X"Y"
LabelQuote ==
    <<"D","i","g","i","t","a","l"," ","C","u","r","r","e","n","c","y"," ","A",
      "d","d","r","e","s","s"," ","-"," ","X","\"","Y">>

\* "Digital Currency Address - DOGE"
LabelDOGE ==
    <<"D","i","g","i","t","a","l"," ","C","u","r","r","e","n","c","y"," ","A",
      "d","d","r","e","s","s"," ","-"," ","D","O","G","E">>

\* "Vessel Flag - PAN"
LabelPlain ==
    <<"V","e","s","s","e","l"," ","F","l","a","g"," ","-"," ","P","A","N">>

\* "0xabcdef012"
ValLong ==
    <<"0","x","a","b","c","d","e","f","0","1","2">>

\* "0XABCDEF012"
ValLongUpper ==
    <<"0","X","A","B","C","D","E","F","0","1","2">>

\* "TQn9Y2khEsLJ"
ValOther ==
    <<"T","Q","n","9","Y","2","k","h","E","s","L","J">>

\* "LcHKx4VAmnTz"
ValLate ==
    <<"L","c","H","K","x","4","V","A","m","n","T","z">>

\* "  0xabcdef01 "
ValPadded ==
    <<" "," ","0","x","a","b","c","d","e","f","0","1"," ">>

\* " bc1qw508d6q "
ValPaddedLong ==
    <<" ","b","c","1","q","w","5","0","8","d","6","q"," ">>

(***************************************************************************)
(* The watchlist engine: database and /check handler                       *)
(***************************************************************************)
KeyLastModified ==
    "last_modified"

SourceOFAC ==
    <<"O","F","A","C">>

\* an empty table
NoRows ==
    [k \in {} |-> k]

\* a statement that empties the table before it inserts
UpsertAlone(table, key, row) ==
    (key :> row)

\* INSERT OR IGNORE: the first write of a key stays
UpsertKeepFirst(table, key, row) ==
    IF key \in DOMAIN table THEN table ELSE (key :> row) @@ table

\* INSERT OR REPLACE: one row per primary key, the last write wins
Upsert(table, key, row) ==
    (key :> row) @@ table

\* the scan of line 140 telling a missing row from an empty value
StoredLastModOrNone(meta) ==
    IF KeyLastModified \in DOMAIN meta THEN meta[KeyLastModified] ELSE "none"

\* SELECT value FROM metadata WHERE key='last_modified', scanned into a
\* string that keeps its zero value "" when there is no row
StoredLastMod(meta) ==
    IF KeyLastModified \in DOMAIN meta THEN meta[KeyLastModified] ELSE ""

\* What a query on a pooled connection reads: committed rows only; the open
\* write transaction lives on its own connection.
ReadViewDirty ==
    IF syncPc \in {"Parsing", "Committing"} THEN txEntries ELSE dbEntries

ReadView ==
    dbEntries

\* checkAddressHandler: the response to GET /check?address=<address>.
\* queryOk = FALSE is a failed QueryRow/Scan for a reason other than a
\* missing row (database locked, I/O error).  detail says whether the JSON
\* object carries "currency" and "source".
checkAddressHandlerNoGuard(address, db, queryOk) ==
    LET found == queryOk /\ address \in DOMAIN db IN
    [status |-> 200, queried |-> TRUE, sanctioned |-> found, detail |-> found,
     currency |-> IF found THEN db[address].currency ELSE StrEmpty,
     source |-> IF found THEN db[address].source ELSE StrEmpty]

checkAddressHandlerFold(address, db, queryOk) ==
    IF address = StrEmpty
    THEN [status |-> 400, queried |-> FALSE, sanctioned |-> FALSE,
          detail |-> FALSE, currency |-> StrEmpty, source |-> StrEmpty]
    ELSE LET hits == {k \in DOMAIN db : EqualFold(k, address)}
             found == queryOk /\ hits # {}
             row == db[CHOOSE k \in hits : TRUE]
         IN  [status |-> 200, queried |-> TRUE, sanctioned |-> found,
              detail |-> found,
              currency |-> IF found THEN row.currency ELSE StrEmpty,
              source |-> IF found THEN row.source ELSE StrEmpty]

\* line 101 telling sql.ErrNoRows from other errors: a failed query is
\* answered with status 500
checkAddressHandlerStrict(address, db, queryOk) ==
    IF address = StrEmpty
    THEN [status |-> 400, queried |-> FALSE, sanctioned |-> FALSE,
          detail |-> FALSE, currency |-> StrEmpty, source |-> StrEmpty]
    ELSE IF ~queryOk
    THEN [status |-> 500, queried |-> TRUE, sanctioned |-> FALSE,
          detail |-> FALSE, currency |-> StrEmpty, source |-> StrEmpty]
    ELSE LET found == address \in DOMAIN db IN
         [status |-> 200, queried |-> TRUE, sanctioned |-> found,
          detail |-> found,
          currency |-> IF found THEN db[address].currency ELSE StrEmpty,
          source |-> IF found THEN db[address].source ELSE StrEmpty]

checkAddressHandler(address, db, queryOk) ==
    IF address = StrEmpty
    THEN [status |-> 400, queried |-> FALSE, sanctioned |-> FALSE,
          detail |-> FALSE, currency |-> StrEmpty, source |-> StrEmpty]
    ELSE LET found == queryOk /\ address \in DOMAIN db IN
         [status |-> 200, queried |-> TRUE, sanctioned |-> found,
          detail |-> found,
          currency |-> IF found THEN db[address].currency ELSE StrEmpty,
          source |-> IF found THEN db[address].source ELSE StrEmpty]

(***************************************************************************)
(* The watchlist engine: the sync loop                                     *)
(***************************************************************************)
\* the static seed of cryptoTypeMap
SeedTypeMap ==
    ("344" :> <<"X","B","T">>) @@ ("345" :> <<"E","T","H">>) @@
    ("686" :> <<"Z","E","C">>) @@ ("687" :> <<"D","A","S","H">>) @@
    ("688" :> <<"B","T","G">>) @@ ("689" :> <<"E","T","C">>) @@
    ("706" :> <<"B","S","V">>) @@ ("726" :> <<"B","C","H">>) @@
    ("746" :> <<"X","V","G">>) @@ ("992" :> <<"T","R","X">>) @@
    ("998" :> <<"U","S","D","C">>) @@ ("1007" :> <<"A","R","B">>) @@
    ("1008" :> <<"B","S","C">>) @@ ("1167" :> <<"S","O","L">>) @@
    ("573" :> <<"X","M","R">>) @@ ("572" :> <<"L","T","C">>)

CurrencyUnknown ==
    <<"U","N","K","N","O","W","N">>

\* len(addr) > MinAddrLen
MinAddrLen ==
    10

\* shouldUpdate, given what the HEAD request brought: "error" (client.Head
\* failed) or the response's Last-Modified header ("" when it has none)
shouldUpdateInverted(probe, meta) ==
    IF probe.err THEN TRUE ELSE StoredLastMod(meta) = probe.lastMod

\* line 145 returning false: a failed probe skips the cycle
shouldUpdateFailClosed(probe, meta) ==
    IF probe.err THEN FALSE ELSE StoredLastMod(meta) # probe.lastMod

shouldUpdate(probe, meta) ==
    IF probe.err THEN TRUE ELSE StoredLastMod(meta) # probe.lastMod

\* lines 250-254 without the exists test: a definition replaces the entry
LearnCurrencyOverride(map, ft) ==
    IF Contains(ft.Value, MarkerDCA)
    THEN LET parts == Split(ft.Value, "-")
             currency == IF Len(parts) > 1 THEN TrimSpace(parts[2])
                         ELSE CurrencyUnknown
         IN  (ft.ID :> currency) @@ map
    ELSE map

\* STEP 1 of the token loop: a decoded FeatureTypeValue element
LearnCurrency(map, ft) ==
    IF Contains(ft.Value, MarkerDCA)
    THEN LET parts == Split(ft.Value, "-")
             currency == IF Len(parts) > 1 THEN TrimSpace(parts[2])
                         ELSE CurrencyUnknown
         IN  IF ft.ID \in DOMAIN map THEN map ELSE (ft.ID :> currency) @@ map
    ELSE map

\* STEP 2 of the token loop: the upserts of one decoded DistinctParty.  The
\* nesting Profile > Feature > FeatureVersion > VersionDetail is walked in
\* document order; a party is given here as its features in that order, each
\* with its VersionDetail values in that order.
\* line 270 measuring d.Value instead of the trimmed addr
RECURSIVE UpsertDetailsUntrimmed(_, _, _, _)
UpsertDetailsUntrimmed(table, details, currency, at) ==
    IF details = <<>> THEN table
    ELSE LET addr == TrimSpace(Head(details))
             next == IF Len(Head(details)) > MinAddrLen
                     THEN Upsert(table, addr,
                                 [currency |-> currency, source |-> SourceOFAC,
                                  updated_at |-> at])
                     ELSE table
         IN  UpsertDetailsUntrimmed(next, Tail(details), currency, at)

RECURSIVE UpsertDetails(_, _, _, _)
UpsertDetails(table, details, currency, at) ==
    IF details = <<>> THEN table
    ELSE LET addr == TrimSpace(Head(details))
             next == IF Len(addr) > MinAddrLen
                     THEN Upsert(table, addr,
                                 [currency |-> currency, source |-> SourceOFAC,
                                  updated_at |-> at])
                     ELSE table
         IN  UpsertDetails(next, Tail(details), currency, at)

RECURSIVE ScanParty(_, _, _, _)
ScanParty(table, features, map, at) ==
    IF features = <<>> THEN table
    ELSE LET feature == Head(features)
             next == IF feature.FeatureTypeID \in DOMAIN map
                     THEN UpsertDetails(table, feature.details,
                                        map[feature.FeatureTypeID], at)
                     ELSE table
         IN  ScanParty(next, Tail(features), map, at)

(***************************************************************************)
(* The remote feed.  A document is the sequence of its elements that the   *)
(* token loop acts on; wellFormed = FALSE is an element whose content is   *)
(* not well-formed XML.                                                    *)
(***************************************************************************)
FeatureTypeValue(id, label) ==
    [kind |-> "FeatureTypeValue", wellFormed |-> TRUE, ID |-> id,
     Value |-> label, features |-> <<>>]

DistinctParty(features) ==
    [kind |-> "DistinctParty", wellFormed |-> TRUE, ID |-> "",
     Value |-> StrEmpty, features |-> features]

MalformedParty ==
    [kind |-> "DistinctParty", wellFormed |-> FALSE, ID |-> "",
     Value |-> StrEmpty, features |-> <<>>]

Feature(typeId, details) ==
    [FeatureTypeID |-> typeId, details |-> details]

\* a definition that is not of a currency, then two parties under seeded
\* identifiers; one value of exactly 10 characters after trimming, one that
\* needs trimming, one under the identifier of the other definition
DocSeeded ==
    << FeatureTypeValue("25", LabelPlain),
       DistinctParty(<< Feature("345", <<ValLong>>),
                        Feature("25", <<ValOther>>) >>),
       DistinctParty(<< Feature("344", <<ValPadded, ValPaddedLong>>) >>) >>

\* a learned identifier, a malformed party, and a party after it
DocLearned ==
    << FeatureTypeValue("2001", LabelTwoDash),
       DistinctParty(<< Feature("2001", <<ValOther>>) >>),
       MalformedParty,
       DistinctParty(<< Feature("345", <<ValLong>>) >>) >>

\* a definition that follows the party using it, a definition for a seeded
\* identifier, and an address listed twice, under two currencies
DocLate ==
    << DistinctParty(<< Feature("2002", <<ValOther>>),
                        Feature("344", <<ValLong>>) >>),
       FeatureTypeValue("2002", LabelQuote),
       FeatureTypeValue("344", LabelDOGE),
       DistinctParty(<< Feature("2002", <<ValLate, ValLong>>) >>) >>

\* the versions of the feed that upstream serves over time, each a document
\* with its Last-Modified value
FeedVersions ==
    { <<DocSeeded, "Mon, 02 Nov 2026">>, <<DocLearned, "Tue, 03 Nov 2026">>,
      <<DocLate, "">> }

\* the feed is replaced upstream
FeedPublish ==
    /\ \E v \in FeedVersions :
          /\ v # <<feedDoc, feedLastMod>>
          /\ feedDoc' = v[1]
          /\ feedLastMod' = v[2]
    /\ UNCHANGED <<dbEntries, dbMeta, syncPc, lastMod, stream, decoderErr,
                   cryptoTypeMap, txEntries, txMeta, now, clock, cycle,
                   handlerVars, invVars>>

(***************************************************************************)
(* The sync goroutine: startSyncLoop, shouldUpdate, downloadAndParseOFAC   *)
(***************************************************************************)
\* how many sync periods the clock runs
MaxClock ==
    1

NoResponse ==
    [err |-> FALSE, status |-> 0, lastMod |-> ""]

\* what an HTTP request for the feed can bring: a transport error, the feed
\* with status 200, or an error status (the code reads the header and the
\* body without looking at the status)
FeedResponses ==
    { [err |-> TRUE, status |-> 0, lastMod |-> "", body |-> <<>>],
      [err |-> FALSE, status |-> 200, lastMod |-> feedLastMod,
       body |-> feedDoc],
      [err |-> FALSE, status |-> 503, lastMod |-> "", body |-> <<>>] }

Summary(r) ==
    [err |-> r.err, status |-> r.status, lastMod |-> r.lastMod]

\* the locals of downloadAndParseOFAC when it is not running
IdleLocals ==
    /\ lastMod' = ""
    /\ stream' = <<>>
    /\ decoderErr' = FALSE
    /\ cryptoTypeMap' = SeedTypeMap
    /\ txEntries' = NoRows
    /\ txMeta' = NoRows
    /\ now' = 0

\* startSyncLoop, line 122: if shouldUpdate() { ... } else { ... }
CheckFreshness ==
    /\ syncPc = "CheckingFreshness"
    /\ \E head \in FeedResponses :
          /\ cycle' = [head |-> Summary(head), get |-> NoResponse,
                       result |-> IF shouldUpdate(head, dbMeta)
                                  THEN "Running" ELSE "UpToDate"]
          /\ syncPc' = IF shouldUpdate(head, dbMeta)
                       THEN "Downloading" ELSE "Sleeping"
    /\ UNCHANGED <<dbEntries, dbMeta, lastMod, stream, decoderErr,
                   cryptoTypeMap, txEntries, txMeta, now, clock, feedDoc,
                   feedLastMod, handlerVars, invVars>>

\* downloadAndParseOFAC, lines 181-227: the GET, the seed map, db.Begin and
\* tx.Prepare
Download ==
    /\ syncPc = "Downloading"
    /\ \E get \in FeedResponses, beginOk \in BOOLEAN :
          IF get.err \/ ~beginOk
          THEN /\ cycle' = [cycle EXCEPT !.get = Summary(get),
                                         !.result = "Failed"]
               /\ syncPc' = "Sleeping"
               /\ IdleLocals
          ELSE /\ cycle' = [cycle EXCEPT !.get = Summary(get)]
               /\ syncPc' = "Parsing"
               /\ lastMod' = get.lastMod
               /\ stream' = get.body
               /\ decoderErr' = FALSE
               /\ cryptoTypeMap' = SeedTypeMap
               /\ txEntries' = dbEntries
               /\ txMeta' = dbMeta
               /\ now' = clock
    /\ UNCHANGED <<dbEntries, dbMeta, clock, feedDoc, feedLastMod,
                   handlerVars, invVars>>

\* one turn of the token loop, lines 229-287, on the next element
ParseToken ==
    /\ syncPc = "Parsing"
    /\ ~decoderErr
    /\ stream # <<>>
    /\ LET se == Head(stream) IN
          /\ stream' = Tail(stream)
          /\ IF ~se.wellFormed
             THEN \* DecodeElement fails: continue; the decoder keeps the error
                  /\ decoderErr' = TRUE
                  /\ UNCHANGED <<cryptoTypeMap, txEntries>>
             ELSE /\ decoderErr' = FALSE
                  /\ cryptoTypeMap' =
                        IF se.kind = "FeatureTypeValue"
                        THEN LearnCurrency(cryptoTypeMap, se)
                        ELSE cryptoTypeMap
                  /\ txEntries' =
                        IF se.kind = "DistinctParty"
                        THEN ScanParty(txEntries, se.features, cryptoTypeMap,
                                       now)
                        ELSE txEntries
    /\ UNCHANGED <<dbEntries, dbMeta, syncPc, lastMod, txMeta, now, clock,
                   cycle, feedDoc, feedLastMod, handlerVars, invVars>>

\* decoder.Token() returns nil: the document is read, the decoder holds a
\* syntax error, or the connection broke (truncated = TRUE); the loop ends
EndOfStream ==
    /\ syncPc = "Parsing"
    /\ \E truncated \in BOOLEAN :
          /\ stream = <<>> \/ decoderErr \/ truncated
          /\ syncPc' = "Committing"
    /\ UNCHANGED <<dbEntries, dbMeta, lastMod, stream, decoderErr,
                   cryptoTypeMap, txEntries, txMeta, now, clock, cycle,
                   feedDoc, feedLastMod, handlerVars, invVars>>

\* lines 289-299: the metadata upsert inside the transaction and tx.Commit.
\* The result of the upsert's tx.Exec is discarded (_, _ =): when the
\* statement fails (metaOk = FALSE) the transaction goes on without it and
\* what tx.Commit commits is the entries alone.
Commit ==
    /\ syncPc = "Committing"
    /\ \E commitOk \in BOOLEAN, metaOk \in BOOLEAN :
          IF commitOk
          THEN /\ dbEntries' = txEntries
               /\ dbMeta' = IF metaOk
                            THEN Upsert(txMeta, KeyLastModified, lastMod)
                            ELSE txMeta
               /\ cycle' = [cycle EXCEPT !.result =
                                IF metaOk THEN "Committed"
                                ELSE "CommittedNoMarker"]
          ELSE /\ UNCHANGED <<dbEntries, dbMeta>>
               /\ cycle' = [cycle EXCEPT !.result = "Failed"]
    /\ syncPc' = "Sleeping"
    /\ IdleLocals
    /\ UNCHANGED <<clock, feedDoc, feedLastMod, handlerVars, invVars>>

\* the loop calling downloadAndParseOFAC after the sleep, without the
\* shouldUpdate of line 122
SleepSkipsCheck ==
    /\ syncPc = "Sleeping"
    /\ clock < MaxClock
    /\ clock' = clock + 1
    /\ syncPc' = "Downloading"
    /\ UNCHANGED <<dbEntries, dbMeta, lastMod, stream, decoderErr,
                   cryptoTypeMap, txEntries, txMeta, now, cycle, feedDoc,
                   feedLastMod, handlerVars, invVars>>

\* line 132: time.Sleep(12 * time.Hour), then the next turn of the loop
Sleep ==
    /\ syncPc = "Sleeping"
    /\ clock < MaxClock
    /\ clock' = clock + 1
    /\ syncPc' = "CheckingFreshness"
    /\ UNCHANGED <<dbEntries, dbMeta, lastMod, stream, decoderErr,
                   cryptoTypeMap, txEntries, txMeta, now, cycle, feedDoc,
                   feedLastMod, handlerVars, invVars>>

\* line 132 once the clock has run its MaxClock periods: the loop goes on,
\* its later periods are no longer told apart
SleepOn ==
    /\ syncPc = "Sleeping"
    /\ clock = MaxClock
    /\ syncPc' = "CheckingFreshness"
    /\ UNCHANGED <<dbEntries, dbMeta, lastMod, stream, decoderErr,
                   cryptoTypeMap, txEntries, txMeta, now, clock, cycle,
                   feedDoc, feedLastMod, handlerVars, invVars>>

\* the token loop of lines 229-287 run over a whole document: the rows it
\* upserts, from the table and the map it starts with
RECURSIVE TokenLoop(_, _, _, _)
TokenLoop(table, map, elems, at) ==
    IF elems = <<>> THEN table
    ELSE LET se == Head(elems) IN
         IF ~se.wellFormed THEN table
         ELSE TokenLoop(IF se.kind = "DistinctParty"
                        THEN ScanParty(table, se.features, map, at)
                        ELSE table,
                        IF se.kind = "FeatureTypeValue"
                        THEN LearnCurrency(map, se) ELSE map,
                        Tail(elems), at)

\* the addresses a complete pass of the token loop over the document stores
FeedYield(doc) ==
    DOMAIN TokenLoop(NoRows, SeedTypeMap, doc, 0)

(***************************************************************************)
(* The /check handler as a step: one request, served against the database  *)
(***************************************************************************)
LookupAddresses ==
    {StrEmpty, ValLong, ValLongUpper, ValOther}

\* the open write transaction holds a row for the address that the
\* committed table does not hold, or holds with other values
UncommittedRow(address) ==
    /\ syncPc \in {"Parsing", "Committing"}
    /\ address \in DOMAIN txEntries
    /\ address \in DOMAIN dbEntries => txEntries[address] # dbEntries[address]

CheckAddress ==
    /\ \E address \in LookupAddresses, queryOk \in BOOLEAN :
          lastCheck' = [address |-> address, queryOk |-> queryOk,
                        uncommitted |-> UncommittedRow(address),
                        resp |-> checkAddressHandler(address, ReadView,
                                                     queryOk)]
    /\ UNCHANGED <<engineVars, invVars>>

(***************************************************************************)
(* The risk investigator                                                   *)
(*                                                                         *)
(* float64 scores are fixed-point numbers counted in thousandths; every    *)
(* value the code can produce is an exact multiple of 0.001.  Durations    *)
(* are counted in minutes.                                                 *)
(***************************************************************************)
Pts(n) ==
    n * 1000

\* math.Round(x*100) / 100 for x >= 0 (half away from zero)
Round2(x) ==
    LET q == x \div 10
        r == x % 10
    IN  (IF r >= 5 THEN q + 1 ELSE q) * 10

clampNoLower(val, min, max) ==
    IF val > max THEN max ELSE val

clamp(val, min, max) ==
    IF val < min THEN min
    ELSE IF val > max THEN max
    ELSE val

\* the value of r.URL.Query().Get("address") for a URL built as
\* "%s/check?address=%s" without escaping: "#" starts the fragment, "&" the
\* next parameter, "+" decodes to a space
RECURSIVE UrlQueryValue(_)
UrlQueryValue(raw) ==
    IF raw = <<>> \/ Head(raw) \in {"#", "&"} THEN <<>>
    ELSE <<IF Head(raw) = "+" THEN " " ELSE Head(raw)>>
         \o UrlQueryValue(Tail(raw))

\* the handler prints currency and source between quotes without escaping:
\* the body decodes as JSON when neither holds a quote or a backslash
JsonDecodes(resp) ==
    \A s \in {resp.currency, resp.source} :
        \A i \in 1..Len(s) : s[i] \notin {"\"", "\\"}

NoEngineResponse ==
    [Sanctioned |-> FALSE, Currency |-> StrEmpty, Source |-> StrEmpty]

\* CheckWatchlist: reachable = FALSE is client.Get failing (connection
\* refused, the 2 s timeout); otherwise the engine's handler answers
CheckWatchlist(address, reachable, db, queryOk) ==
    IF ~reachable
    THEN [err |-> "connection refused", resp |-> NoEngineResponse]
    ELSE LET r == checkAddressHandler(UrlQueryValue(address), db, queryOk) IN
         IF r.status # 200
         THEN [err |-> "server error", resp |-> NoEngineResponse]
         ELSE IF ~JsonDecodes(r)
         THEN [err |-> "decode error", resp |-> NoEngineResponse]
         ELSE [err |-> "",
               resp |-> [Sanctioned |-> r.sanctioned, Currency |-> r.currency,
                         Source |-> r.source]]

knownThreats ==
    (ThreatAddr :> ThreatLabel)

\* a Go slice: nil until the first append
NilSlice ==
    [isNil |-> TRUE, elems |-> <<>>]

AppendTo(slice, x) ==
    [isNil |-> FALSE, elems |-> Append(slice.elems, x)]

\* line 64 as reasons := []RiskReason{}: empty, not nil
ZeroScoresEmptySlice ==
    [fraud |-> 0, rep |-> 0, lend |-> 0,
     reasons |-> [isNil |-> FALSE, elems |-> <<>>]]

\* the locals fraudScore, repScore, lendScore, reasons at function entry
ZeroScores ==
    [fraud |-> 0, rep |-> 0, lend |-> 0, reasons |-> NilSlice]

\* the closure addRisk
addRisk(st, category, desc, args, offset) ==
    LET st1 == [st EXCEPT !.reasons =
                    AppendTo(st.reasons,
                             [Category |-> category, Description |-> desc,
                              Args |-> args, Offset |-> offset])]
    IN  CASE category = "FRAUD" -> [st1 EXCEPT !.fraud = @ + offset]
          [] category = "REPUTATION" -> [st1 EXCEPT !.rep = @ + offset]
          [] category = "LENDING" -> [st1 EXCEPT !.lend = @ + offset]
          [] OTHER -> st1

\* lines 92-96: the three reasons of a sanctions hit
SanctionHit(st, resp) ==
    LET a == addRisk(st, "FRAUD", "CRITICAL: %s Sanctioned Address (%s)",
                     <<resp.Source, resp.Currency>>, Pts(100))
        b == addRisk(a, "REPUTATION", "Government Blacklisted Entity", <<>>,
                     Pts(100))
    IN  addRisk(b, "LENDING", "Prohibited: Federal Sanctions", <<>>, Pts(100))

\* lines 88-91: the advisory of a failed lookup
EngineUnavailable(st) ==
    addRisk(st, "SYSTEM",
            "Watchlist Engine Unavailable - Sanctions Check Skipped", <<>>,
            Pts(0))

\* line 114 with the offset +10.0
AgeCheckPenalty(st, firstSeenNil, hoursOld) ==
    IF firstSeenNil THEN st
    ELSE IF hoursOld > 24 * 365 * 60
    THEN addRisk(st, "REPUTATION", "Established History (>1 Year)", <<>>,
                 Pts(10))
    ELSE IF hoursOld < 24 * 60
    THEN addRisk(st, "FRAUD", "Freshly Created Wallet (<24h)", <<>>, Pts(35))
    ELSE st

\* lines 113 and 115 with >= and <=: the boundaries fire
AgeCheckInclusive(st, firstSeenNil, hoursOld) ==
    IF firstSeenNil THEN st
    ELSE IF hoursOld >= 24 * 365 * 60
    THEN addRisk(st, "REPUTATION", "Established History (>1 Year)", <<>>,
                 Pts(-10))
    ELSE IF hoursOld <= 24 * 60
    THEN addRisk(st, "FRAUD", "Freshly Created Wallet (<24h)", <<>>, Pts(35))
    ELSE st

\* lines 110-118: Age Check; hoursOld is time.Since(*FirstSeen) in minutes
AgeCheck(st, firstSeenNil, hoursOld) ==
    IF firstSeenNil THEN st
    ELSE IF hoursOld > 24 * 365 * 60
    THEN addRisk(st, "REPUTATION", "Established History (>1 Year)", <<>>,
                 Pts(-10))
    ELSE IF hoursOld < 24 * 60
    THEN addRisk(st, "FRAUD", "Freshly Created Wallet (<24h)", <<>>, Pts(35))
    ELSE st

\* lines 129-134 without the directThreat flag: every match is penalised
RECURSIVE InteractionsCheckEvery(_, _, _, _)
InteractionsCheckEvery(st, directThreat, list, address) ==
    IF list = <<>> THEN st
    ELSE LET tx == Head(list)
             otherParty == IF EqualFold(tx.From, address)
                           THEN ToLower(tx.To) ELSE ToLower(tx.From)
         IN  IF otherParty \in DOMAIN knownThreats
             THEN InteractionsCheckEvery(
                      addRisk(st, "FRAUD", "Direct Interaction with %s",
                              <<knownThreats[otherParty]>>, Pts(55)),
                      TRUE, Tail(list), address)
             ELSE InteractionsCheckEvery(st, directThreat, Tail(list), address)

\* lines 120-136: Interactions Check
RECURSIVE InteractionsCheck(_, _, _, _)
InteractionsCheck(st, directThreat, list, address) ==
    IF list = <<>> THEN st
    ELSE LET tx == Head(list)
             otherParty == IF EqualFold(tx.From, address)
                           THEN ToLower(tx.To) ELSE ToLower(tx.From)
         IN  IF otherParty \in DOMAIN knownThreats /\ ~directThreat
             THEN InteractionsCheck(
                      addRisk(st, "FRAUD", "Direct Interaction with %s",
                              <<knownThreats[otherParty]>>, Pts(55)),
                      TRUE, Tail(list), address)
             ELSE InteractionsCheck(st, directThreat, Tail(list), address)

\* lines 138-147 without line 141: no floor of one hour
VelocityCheckNoFloor(st, txCount, firstSeenNil, hoursActive) ==
    IF txCount > 0 /\ ~firstSeenNil
    THEN IF txCount * 60 > 20 * hoursActive
         THEN addRisk(st, "FRAUD", "High Velocity Behavior (Potential Bot)",
                      <<>>, Pts(25))
         ELSE st
    ELSE st

\* lines 138-147: Velocity Check; hoursActive is the second
\* time.Since(*FirstSeen), in minutes
VelocityCheck(st, txCount, firstSeenNil, hoursActive) ==
    IF txCount > 0 /\ ~firstSeenNil
    THEN LET active == IF hoursActive < 60 THEN 60 ELSE hoursActive IN
         \* float64(TxCount) / hoursActive > 20.0
         IF txCount * 60 > 20 * active
         THEN addRisk(st, "FRAUD", "High Velocity Behavior (Potential Bot)",
                      <<>>, Pts(25))
         ELSE st
    ELSE st

\* lines 160-169
GradeOfShifted(combinedRisk) ==
    IF combinedRisk < Pts(10) THEN "EXCELLENT (Safe)"
    ELSE IF combinedRisk < Pts(25) THEN "LOW (Neutral)"
    ELSE IF combinedRisk < Pts(60) THEN "WARNING (Elevated)"
    ELSE "FAILING (High Risk)"

GradeOf(combinedRisk) ==
    IF combinedRisk < Pts(10) THEN "EXCELLENT (Safe)"
    ELSE IF combinedRisk < Pts(35) THEN "LOW (Neutral)"
    ELSE IF combinedRisk < Pts(60) THEN "WARNING (Elevated)"
    ELSE "FAILING (High Risk)"

\* line 158: (fraudScore * 0.5) + (repScore * 0.3) + (lendScore * 0.2)
CombinedRiskUnweighted(fraud, rep, lend) ==
    fraud + rep + lend

CombinedRisk(fraud, rep, lend) ==
    (fraud * 5 + rep * 3 + lend * 2) \div 10

\* lines 153-178: FINALIZE SCORE
Finalize(p, st) ==
    LET fraudScore == clamp(st.fraud, Pts(0), Pts(100))
        repScore == clamp(st.rep, Pts(0), Pts(100))
        lendScore == clamp(st.lend, Pts(0), Pts(100))
        combinedRisk == CombinedRisk(fraudScore, repScore, lendScore)
    IN  [p EXCEPT !.RiskScore = Round2(combinedRisk),
                  !.RiskGrade = GradeOf(combinedRisk),
                  !.RiskBreakdown = [Fraud |-> Round2(fraudScore),
                                     Reputation |-> Round2(repScore),
                                     Lending |-> Round2(lendScore)],
                  !.RiskReasons = st.reasons]

\* lines 106-178 with the Velocity Check moved before the Age Check
HeuristicsVelocityFirst(p, list, st, reads) ==
    LET nil == p.FirstSeen.isNil
        a == VelocityCheck(st, p.TxCount, nil, reads[2] - p.FirstSeen.t)
        b == AgeCheck(a, nil, reads[1] - p.FirstSeen.t)
        c == InteractionsCheck(b, FALSE, list, p.Address)
    IN  Finalize(p, c)

\* the heuristics and the final score, lines 106-178, from the scores st
\* the sanctions step left; reads = the two clock readings
Heuristics(p, list, st, reads) ==
    LET nil == p.FirstSeen.isNil
        a == AgeCheck(st, nil, reads[1] - p.FirstSeen.t)
        b == InteractionsCheck(a, FALSE, list, p.Address)
        c == VelocityCheck(b, p.TxCount, nil, reads[2] - p.FirstSeen.t)
    IN  Finalize(p, c)

\* lines 98-102 scoring the hit like any other result: clamp, weigh, grade
ForceMaxScoreGraded(p, st) ==
    Finalize(p, st)

\* lines 98-102: Force Max Score Immediately
ForceMaxScore(p, st) ==
    [p EXCEPT !.RiskScore = Pts(100),
              !.RiskGrade = "CRITICAL (Sanctioned)",
              !.RiskBreakdown = [Fraud |-> Pts(100), Reputation |-> Pts(100),
                                 Lending |-> Pts(100)],
              !.RiskReasons = st.reasons]

\* lines 98-103 without the return: the heuristics run after a hit
InvestigateNoReturn(p, list, call, reads) ==
    IF call.err # ""
    THEN Heuristics([p EXCEPT !.ValidationDetails = @ \o WarnOffline], list,
                    EngineUnavailable(ZeroScores), reads)
    ELSE IF call.resp.Sanctioned
    THEN Heuristics(p, list, SanctionHit(ZeroScores, call.resp), reads)
    ELSE Heuristics(p, list, ZeroScores, reads)

\* lines 88-89 raising instead of failing open: nothing is scored
InvestigateFailClosed(p, list, call, reads) ==
    IF call.err # "" THEN p
    ELSE IF call.resp.Sanctioned
    THEN ForceMaxScore(p, SanctionHit(ZeroScores, call.resp))
    ELSE Heuristics(p, list, ZeroScores, reads)

\* line 91 moved out of the error branch: the warning is appended whatever
\* the lookup returned
InvestigateAlwaysWarns(p, list, call, reads) ==
    LET q == [p EXCEPT !.ValidationDetails = @ \o WarnOffline] IN
    IF call.err # ""
    THEN Heuristics(q, list, EngineUnavailable(ZeroScores), reads)
    ELSE IF call.resp.Sanctioned
    THEN ForceMaxScore(q, SanctionHit(ZeroScores, call.resp))
    ELSE Heuristics(q, list, ZeroScores, reads)

\* Investigate, lines 62-179: the profile it leaves, given what
\* CheckWatchlist returned
InvestigateResult(p, list, call, reads) ==
    IF call.err # ""
    THEN Heuristics([p EXCEPT !.ValidationDetails = @ \o WarnOffline], list,
                    EngineUnavailable(ZeroScores), reads)
    ELSE IF call.resp.Sanctioned
    THEN ForceMaxScore(p, SanctionHit(ZeroScores, call.resp))
    ELSE Heuristics(p, list, ZeroScores, reads)

\* the second time.Since reading is taken later than the first: by less
\* than a minute, or across a minute boundary
ClockDrifts ==
    {0, 1}

Investigate ==
    /\ invPc = "ready"
    /\ \E reachable \in BOOLEAN, queryOk \in BOOLEAN, drift \in ClockDrifts :
          LET call == CheckWatchlist(profile.Address, reachable, ReadView,
                                     queryOk)
              reads == <<0, drift>>
          IN  /\ engineCall' = call
              /\ clockReads' = reads
              /\ profile' = InvestigateResult(profile, txs, call, reads)
    /\ invPc' = "done"
    /\ UNCHANGED <<engineVars, handlerVars, txs>>

(***************************************************************************)
(* Inputs of Investigate                                                   *)
(***************************************************************************)
\* how many transactions a history holds at most
MaxTxs ==
    2

SeqsUpTo(S, n) ==
    UNION {[1..k -> S] : k \in 0..n}

ProfileAddresses ==
    {AddrSanctioned, AddrSanctionedMixed, AddrClean, AddrOddTicker}

\* minutes between FirstSeen and the call: half an hour, 2 hours, just
\* under and exactly 24 hours, exactly 365 days, 400 days
FirstSeenAges ==
    {30, 120, 24 * 60 - 1, 24 * 60, 365 * 24 * 60, 400 * 24 * 60}

NilTime ==
    [isNil |-> TRUE, t |-> 0]

FirstSeenValues ==
    {NilTime} \cup {[isNil |-> FALSE, t |-> 0 - age] : age \in FirstSeenAges}

TxCounts ==
    {0, 20, 21, 40, 100}

Tx(from, to) ==
    [From |-> from, To |-> to]

\* transactions of a wallet: sent to the threat, received from it (in
\* checksum case), between two other parties, sent elsewhere
TxSamples(address) ==
    { Tx(address, ThreatAddr), Tx(ThreatAddrMixed, address),
      Tx(AddrThird, ThreatAddr), Tx(address, AddrThird) }

\* the engine's database while a wallet is investigated: an address under a
\* seeded identifier and one under a learned ticker that holds a quote
InvestigatedStore ==
    (AddrSanctioned :>
        [currency |-> <<"E","T","H">>, source |-> SourceOFAC,
         updated_at |-> 0]) @@
    (AddrOddTicker :>
        [currency |-> <<"X","\"","Y">>, source |-> SourceOFAC,
         updated_at |-> 0])

FetchedProfile(address, txCount, firstSeen) ==
    [Address |-> address, Network |-> "EVM", IsValid |-> TRUE,
     ValidationDetails |-> DetailsActive, IsActive |-> TRUE,
     Balance |-> "1", TxCount |-> txCount, FirstSeen |-> firstSeen,
     LastSeen |-> firstSeen, RiskScore |-> 0, RiskGrade |-> "",
     RiskBreakdown |-> [Fraud |-> 0, Reputation |-> 0, Lending |-> 0],
     RiskReasons |-> NilSlice]

NoCall ==
    [err |-> "", resp |-> NoEngineResponse]

NoCheck ==
    [address |-> StrEmpty, queryOk |-> TRUE, uncommitted |-> FALSE,
     resp |-> [status |-> 0, queried |-> FALSE, sanctioned |-> FALSE,
               detail |-> FALSE, currency |-> StrEmpty, source |-> StrEmpty]]

(***************************************************************************)
(* Specifications                                                          *)
(***************************************************************************)
\* the engine at rest: nothing running in the sync goroutine
EngineAtRest ==
    /\ syncPc = "Sleeping"
    /\ lastMod = ""
    /\ stream = <<>>
    /\ decoderErr = FALSE
    /\ cryptoTypeMap = SeedTypeMap
    /\ txEntries = NoRows
    /\ txMeta = NoRows
    /\ now = 0
    /\ lastCheck = NoCheck

InvestigatorIdle ==
    /\ profile = FetchedProfile(AddrClean, 0, NilTime)
    /\ txs = <<>>
    /\ engineCall = NoCall
    /\ clockReads = <<0, 0>>
    /\ invPc = "idle"

\* the engine after main(): empty tables, the sync goroutine about to make
\* its first freshness check
Init ==
    /\ dbEntries = NoRows
    /\ dbMeta = NoRows
    /\ syncPc = "CheckingFreshness"
    /\ lastMod = ""
    /\ stream = <<>>
    /\ decoderErr = FALSE
    /\ cryptoTypeMap = SeedTypeMap
    /\ txEntries = NoRows
    /\ txMeta = NoRows
    /\ now = 0
    /\ clock = 0
    /\ cycle = [head |-> NoResponse, get |-> NoResponse, result |-> "None"]
    /\ \E v \in FeedVersions :
          /\ feedDoc = v[1]
          /\ feedLastMod = v[2]
    /\ lastCheck = NoCheck
    /\ InvestigatorIdle

Next ==
    \/ CheckFreshness
    \/ Download
    \/ ParseToken
    \/ EndOfStream
    \/ Commit
    \/ Sleep
    \/ FeedPublish

Spec ==
    Init /\ [][Next]_vars

\* the same engine with /check requests served while it syncs
NextCheck ==
    \/ CheckFreshness
    \/ Download
    \/ ParseToken
    \/ EndOfStream
    \/ Commit
    \/ Sleep
    \/ FeedPublish
    \/ CheckAddress

SpecCheck ==
    Init /\ [][NextCheck]_vars

\* the sync goroutine running for ever: the loop of startSyncLoop has no
\* exit, every request has an outcome, and the goroutine is scheduled
NextLive ==
    \/ CheckFreshness
    \/ Download
    \/ ParseToken
    \/ EndOfStream
    \/ Commit
    \/ Sleep
    \/ SleepOn
    \/ FeedPublish

SpecLive ==
    /\ Init
    /\ [][NextLive]_vars
    /\ WF_vars(CheckFreshness)
    /\ WF_vars(Download)
    /\ WF_vars(ParseToken)
    /\ WF_vars(EndOfStream)
    /\ WF_vars(Commit)
    /\ WF_vars(Sleep)
    /\ WF_vars(SleepOn)

\* one call of Investigate on a fetched profile, against a running engine
InitInv ==
    /\ dbEntries = InvestigatedStore
    /\ dbMeta = (KeyLastModified :> "Mon, 02 Nov 2026")
    /\ EngineAtRest
    /\ clock = 0
    /\ cycle = [head |-> NoResponse, get |-> NoResponse, result |-> "None"]
    /\ feedDoc = DocSeeded
    /\ feedLastMod = "Mon, 02 Nov 2026"
    /\ \E address \in ProfileAddresses :
          /\ \E txCount \in TxCounts, firstSeen \in FirstSeenValues :
                profile = FetchedProfile(address, txCount, firstSeen)
          /\ txs \in SeqsUpTo(TxSamples(address), MaxTxs)
    /\ engineCall = NoCall
    /\ clockReads = <<0, 0>>
    /\ invPc = "ready"

NextInv ==
    Investigate

SpecInv ==
    InitInv /\ [][NextInv]_vars

(***************************************************************************)
(* Claims about Investigate (checked under SpecInv)                        *)
(***************************************************************************)
Done ==
    invPc = "done"

\* CheckWatchlist returned without an error and with sanctioned = true
SanctionedReply ==
    engineCall.err = "" /\ engineCall.resp.Sanctioned

ForcedCritical ==
    /\ profile.RiskScore = Pts(100)
    /\ profile.RiskGrade = "CRITICAL (Sanctioned)"
    /\ profile.RiskBreakdown.Fraud = Pts(100)
    /\ profile.RiskBreakdown.Reputation = Pts(100)
    /\ profile.RiskBreakdown.Lending = Pts(100)

Reasons ==
    profile.RiskReasons.elems

\* C1, as stated: for any profile whose address is present in the Sanction
\* Store, Investigate always yields riskScore 100, grade CRITICAL
\* (Sanctioned) and all three category scores 100.
C1_StoredAddressAlwaysCritical ==
    (Done /\ profile.Address \in DOMAIN dbEntries) => ForcedCritical

\* C1, amended: for a profile whose address is present in the Sanction
\* Store, Investigate yields riskScore 100, grade CRITICAL (Sanctioned) and
\* all three category scores 100, whatever firstSeen, txCount and the
\* transactions are, whenever its lookup call returns sanctioned = true.
C1_SanctionedReplyForcesCritical ==
    (Done /\ profile.Address \in DOMAIN dbEntries /\ SanctionedReply)
        => ForcedCritical

\* a sanctioned wallet that is fresh, fast and has dealt with the threat
C1_Witness ==
    /\ Done
    /\ profile.Address \in DOMAIN dbEntries
    /\ SanctionedReply
    /\ ~profile.FirstSeen.isNil
    /\ profile.FirstSeen.t = 0 - 30
    /\ profile.TxCount = 100
    /\ Len(txs) = MaxTxs
    /\ ForcedCritical

\* C2: when the lookup answers sanctioned = true, riskReasons are exactly
\* three entries, FRAUD, REPUTATION, LENDING in this order, each with offset
\* 100, and no age, known-threat or velocity reason is appended.
C2_SanctionedReasonsExactlyThree ==
    (Done /\ SanctionedReply) =>
        /\ ~profile.RiskReasons.isNil
        /\ Len(Reasons) = 3
        /\ <<Reasons[1].Category, Reasons[2].Category, Reasons[3].Category>>
              = <<"FRAUD", "REPUTATION", "LENDING">>
        /\ \A i \in 1..3 : Reasons[i].Offset = Pts(100)

\* a hit on a wallet whose age, transactions and velocity would all fire
C2_Witness ==
    /\ Done
    /\ SanctionedReply
    /\ profile.FirstSeen = [isNil |-> FALSE, t |-> 0 - 30]
    /\ profile.TxCount = 21
    /\ \E i \in 1..Len(txs) : txs[i].To = ThreatAddr
    /\ Len(Reasons) = 3

\* what Investigate leaves for the same inputs when the lookup succeeds with
\* sanctioned = false (the risk fields it overwrites do not matter)
UnsanctionedResult ==
    InvestigateResult(profile, txs, NoCall, clockReads)

\* C3: if the lookup fails, Investigate still completes and fills the risk
\* fields, the first reason is SYSTEM with offset 0, and the age,
\* known-threat and velocity heuristics are applied exactly as for an
\* unsanctioned address.
C3_FailOpen ==
    (Done /\ engineCall.err # "") =>
        /\ profile.RiskGrade \in {"EXCELLENT (Safe)", "LOW (Neutral)",
                                  "WARNING (Elevated)", "FAILING (High Risk)"}
        /\ ~profile.RiskReasons.isNil
        /\ Len(Reasons) >= 1
        /\ Reasons[1].Category = "SYSTEM"
        /\ Reasons[1].Offset = 0
        /\ Tail(Reasons) = UnsanctionedResult.RiskReasons.elems
        /\ profile.RiskScore = UnsanctionedResult.RiskScore
        /\ profile.RiskGrade = UnsanctionedResult.RiskGrade
        /\ profile.RiskBreakdown = UnsanctionedResult.RiskBreakdown

\* the engine is unreachable for a stored address and two heuristics fire
C3_Witness ==
    /\ Done
    /\ engineCall.err = "connection refused"
    /\ profile.Address \in DOMAIN dbEntries
    /\ Len(Reasons) = 3
    /\ Reasons[2].Offset = Pts(35)
    /\ Reasons[3].Offset = Pts(55)

\* C4: for every combination of rules firing, each of fraud, reputation and
\* lending in riskBreakdown lies in [0,100].
C4_BreakdownInRange ==
    Done =>
        /\ profile.RiskBreakdown.Fraud \in Pts(0)..Pts(100)
        /\ profile.RiskBreakdown.Reputation \in Pts(0)..Pts(100)
        /\ profile.RiskBreakdown.Lending \in Pts(0)..Pts(100)

RECURSIVE SumOffsets(_, _)
SumOffsets(list, category) ==
    IF list = <<>> THEN 0
    ELSE (IF Head(list).Category = category THEN Head(list).Offset ELSE 0)
         + SumOffsets(Tail(list), category)

\* the fraud offsets add up to 115 and are cut to 100
C4_Witness ==
    /\ Done
    /\ ~SanctionedReply
    /\ SumOffsets(Reasons, "FRAUD") = Pts(115)
    /\ profile.RiskBreakdown.Fraud = Pts(100)

\* C5: for every non-sanctioned result the grade is decided by the combined
\* score alone: EXCELLENT iff score < 10, LOW iff 10 <= score < 35, WARNING
\* iff 35 <= score < 60, FAILING iff score >= 60, never UNKNOWN.
C5_GradeByThresholds ==
    (Done /\ ~SanctionedReply) =>
        LET score == profile.RiskScore
            grade == profile.RiskGrade
        IN  /\ grade = "EXCELLENT (Safe)" <=> score < Pts(10)
            /\ grade = "LOW (Neutral)" <=> (Pts(10) <= score /\ score < Pts(35))
            /\ grade = "WARNING (Elevated)"
                  <=> (Pts(35) <= score /\ score < Pts(60))
            /\ grade = "FAILING (High Risk)" <=> score >= Pts(60)
            /\ grade # "UNKNOWN"

\* a score between the two lower thresholds and one above the second
C5_Witness ==
    /\ Done
    /\ ~SanctionedReply
    /\ profile.RiskScore = Pts(45)
    /\ profile.RiskGrade = "WARNING (Elevated)"

Clamp100(x) ==
    IF x < 0 THEN 0 ELSE IF x > Pts(100) THEN Pts(100) ELSE x

\* C6: for every non-sanctioned result each category score is the sum of
\* that category's offsets clamped to [0,100], and riskScore is
\* 0.5*fraud + 0.3*reputation + 0.2*lending over the clamped values; a
\* fresh wallet (+35) with high velocity (+25) and nothing else gets fraud
\* 60, combined 30 and grade LOW (Neutral).
C6_WeightedClampedSums ==
    (Done /\ ~SanctionedReply) =>
        LET b == profile.RiskBreakdown IN
        /\ b.Fraud = Clamp100(SumOffsets(Reasons, "FRAUD"))
        /\ b.Reputation = Clamp100(SumOffsets(Reasons, "REPUTATION"))
        /\ b.Lending = Clamp100(SumOffsets(Reasons, "LENDING"))
        /\ 10 * profile.RiskScore = 5 * b.Fraud + 3 * b.Reputation
                                      + 2 * b.Lending
        /\ (/\ profile.FirstSeen = [isNil |-> FALSE, t |-> 0 - 120]
            /\ profile.TxCount = 100
            /\ txs = <<>>)
              => /\ b.Fraud = Pts(60)
                 /\ profile.RiskScore = Pts(30)
                 /\ profile.RiskGrade = "LOW (Neutral)"

\* first seen 2 hours ago with 100 transactions, no threat interaction
C6_Witness ==
    /\ Done
    /\ ~SanctionedReply
    /\ profile.FirstSeen = [isNil |-> FALSE, t |-> 0 - 120]
    /\ profile.TxCount = 100
    /\ txs = <<>>
    /\ profile.RiskBreakdown.Fraud = Pts(60)
    /\ profile.RiskScore = Pts(30)

\* the other party of a transaction, as the Interactions Check takes it
OtherParty(tx) ==
    IF EqualFold(tx.From, profile.Address)
    THEN ToLower(tx.To) ELSE ToLower(tx.From)

\* the inputs under which no rule fires: the lookup succeeded with
\* sanctioned = false, firstSeen is unset or between 24 hours and 365 days
\* old, no transaction's other party is a known threat, and the velocity is
\* not exceeded
NoRuleFires ==
    /\ engineCall.err = ""
    /\ ~engineCall.resp.Sanctioned
    /\ \/ profile.FirstSeen.isNil
       \/ /\ clockReads[1] - profile.FirstSeen.t >= 24 * 60
          /\ clockReads[1] - profile.FirstSeen.t <= 365 * 24 * 60
    /\ \A i \in 1..Len(txs) : OtherParty(txs[i]) \notin DOMAIN knownThreats
    /\ \/ profile.TxCount = 0
       \/ profile.FirstSeen.isNil
       \/ profile.TxCount * 60 <= 20 * (clockReads[2] - profile.FirstSeen.t)

\* C17, as stated: when no rule fires and there is no sanction hit, the
\* riskReasons written by Investigate are an empty sequence, not an absent
\* or null value.
C17_NoRuleEmptySequence ==
    (Done /\ NoRuleFires) =>
        /\ ~profile.RiskReasons.isNil
        /\ Reasons = <<>>

\* C17, amended: when no rule fires and there is no sanction hit, the
\* riskReasons written by Investigate are the nil slice: no element, and
\* absent (null when encoded), not an empty sequence.
C17_NoRuleNilReasons ==
    (Done /\ NoRuleFires) =>
        /\ profile.RiskReasons.isNil
        /\ Reasons = <<>>

\* a 24 hours old wallet with 100 transactions, none with a known threat
C17_Witness ==
    /\ Done
    /\ NoRuleFires
    /\ profile.FirstSeen = [isNil |-> FALSE, t |-> 0 - 24 * 60]
    /\ profile.TxCount = 100
    /\ Len(txs) = MaxTxs
    /\ profile.RiskReasons = NilSlice
    /\ profile.RiskGrade = "EXCELLENT (Safe)"

\* the reasons of one rule: a category and an offset
ReasonsOf(category, offset) ==
    SelectSeq(Reasons,
              LAMBDA r : r.Category = category /\ r.Offset = offset)

\* the transactions whose other party is a known threat
ThreatMatches ==
    {i \in 1..Len(txs) : OtherParty(txs[i]) \in DOMAIN knownThreats}

\* C18: for any transaction list Investigate applies at most one FRAUD
\* offset of +55; where the heuristics run (no sanction hit), exactly one
\* such reason is appended when at least one transaction's other party is a
\* known threat, however many match, with the label of the first match, and
\* none when no transaction matches.
C18_OneThreatPenalty ==
    Done =>
        LET hits == ReasonsOf("FRAUD", Pts(55)) IN
        /\ Len(hits) <= 1
        /\ ~SanctionedReply =>
              IF ThreatMatches = {}
              THEN hits = <<>>
              ELSE LET first == CHOOSE i \in ThreatMatches :
                                   \A j \in ThreatMatches : i <= j
                   IN  /\ Len(hits) = 1
                       /\ hits[1].Description = "Direct Interaction with %s"
                       /\ hits[1].Args
                             = <<knownThreats[OtherParty(txs[first])]>>

\* two transactions with the threat, one sent and one received in checksum
\* case: one penalty
C18_Witness ==
    /\ Done
    /\ ~SanctionedReply
    /\ Len(txs) = 2
    /\ ThreatMatches = {1, 2}
    /\ txs[1] # txs[2]
    /\ Len(ReasonsOf("FRAUD", Pts(55))) = 1
    /\ SumOffsets(Reasons, "FRAUD") = Pts(55)

\* minutes between firstSeen and the first and the second reading of the
\* clock
AgeAtFirstRead ==
    clockReads[1] - profile.FirstSeen.t

AgeAtSecondRead ==
    clockReads[2] - profile.FirstSeen.t

C20_VelocityStrictlyAboveTwenty ==
    /\ invPc \in {"ready", "done"}
    /\ (Done /\ ~SanctionedReply) =>
          LET fast == ReasonsOf("FRAUD", Pts(25))
              minutes == IF AgeAtSecondRead < 60 THEN 60 ELSE AgeAtSecondRead
              exceeded == /\ profile.TxCount > 0
                          /\ ~profile.FirstSeen.isNil
                          /\ profile.TxCount * 60 > 20 * minutes
          IN  /\ Len(fast) = (IF exceeded THEN 1 ELSE 0)
              /\ (profile.TxCount = 0 \/ profile.FirstSeen.isNil)
                    => /\ fast = <<>>
                       /\ profile.RiskGrade # ""

\* 20 transactions in the first half hour: the hour is floored to 1, the
\* rate is exactly 20 and nothing is added for velocity
C20_Witness ==
    /\ Done
    /\ ~SanctionedReply
    /\ profile.TxCount = 20
    /\ ~profile.FirstSeen.isNil
    /\ AgeAtSecondRead <= 31
    /\ ReasonsOf("FRAUD", Pts(25)) = <<>>
    /\ ReasonsOf("FRAUD", Pts(35)) # <<>>

\* the place of a reason's rule in the order of evaluation: the advisory
\* of the lookup, the age check, the interactions check, the velocity check
RuleRank(r) ==
    CASE r.Category = "SYSTEM" -> 0
      [] r.Category = "REPUTATION" /\ r.Offset = Pts(-10) -> 1
      [] r.Category = "FRAUD" /\ r.Offset = Pts(35) -> 1
      [] r.Category = "FRAUD" /\ r.Offset = Pts(55) -> 2
      [] r.Category = "FRAUD" /\ r.Offset = Pts(25) -> 3
      [] OTHER -> 4

\* C21: riskReasons is the trail of every scoring adjustment in the order
\* the rules are evaluated: in a non-sanctioned result the reasons stand in
\* the order SYSTEM advisory, age, known threat, velocity, each rule at most
\* once, the advisory exactly when the lookup failed; and every breakdown
\* value is the clamp to [0,100] of the sum of the listed offsets of its
\* category, so a score differs from 0 only where a reason is listed.
C21_AuditTrailInRuleOrder ==
    (Done /\ ~SanctionedReply) =>
        LET b == profile.RiskBreakdown IN
        /\ \A i \in 1..Len(Reasons) : RuleRank(Reasons[i]) \in 0..3
        /\ \A i \in 1..Len(Reasons), j \in 1..Len(Reasons) :
              i < j => RuleRank(Reasons[i]) < RuleRank(Reasons[j])
        /\ (engineCall.err # "")
              <=> (Reasons # <<>> /\ RuleRank(Reasons[1]) = 0)
        /\ b.Fraud = Clamp100(SumOffsets(Reasons, "FRAUD"))
        /\ b.Reputation = Clamp100(SumOffsets(Reasons, "REPUTATION"))
        /\ b.Lending = Clamp100(SumOffsets(Reasons, "LENDING"))
        /\ b.Fraud # 0 =>
              ReasonsOf("FRAUD", Pts(35)) \o ReasonsOf("FRAUD", Pts(55))
                 \o ReasonsOf("FRAUD", Pts(25)) # <<>>
        /\ Reasons = <<>> => b = [Fraud |-> 0, Reputation |-> 0, Lending |-> 0]

\* the lookup fails and all three heuristics fire
C21_Witness ==
    /\ Done
    /\ engineCall.err # ""
    /\ Len(Reasons) = 4
    /\ <<Reasons[1].Category, Reasons[2].Offset, Reasons[3].Offset,
         Reasons[4].Offset>> = <<"SYSTEM", Pts(35), Pts(55), Pts(25)>>
    /\ profile.RiskBreakdown.Fraud = Pts(100)

\* the sides of a transaction that are not the profile's own address,
\* compared without regard to case, in lower case
NotOwnSides(tx) ==
    {ToLower(side) : side \in {x \in {tx.From, tx.To} :
                                  ~EqualFold(x, profile.Address)}}

\* C28: the counterparty checked against the known-threat table is
\* whichever of from/to is not the profile's own address, both comparisons
\* without regard to case: where the heuristics run, the +55 reason is
\* there exactly when some transaction has a known threat on a side that is
\* not the profile's own, and so whenever a to field is a known threat that
\* is not the profile's own address, whatever the from field holds.
C28_CounterpartyNotOwn ==
    (Done /\ ~SanctionedReply) =>
        /\ (ReasonsOf("FRAUD", Pts(55)) # <<>>)
              <=> \E i \in 1..Len(txs) :
                     NotOwnSides(txs[i]) \cap DOMAIN knownThreats # {}
        /\ \A i \in 1..Len(txs) :
              (/\ ToLower(txs[i].To) \in DOMAIN knownThreats
               /\ ~EqualFold(txs[i].To, profile.Address))
                 => ReasonsOf("FRAUD", Pts(55)) # <<>>

\* C29: in every non-sanctioned result reputation and lending are 0 after
\* clamping, since no rule adds a positive reputation or lending offset; so
\* riskScore is half of fraud, at most 50, and the grade FAILING (High Risk)
\* is never produced.
C29_NeverFailing ==
    (Done /\ ~SanctionedReply) =>
        /\ profile.RiskBreakdown.Reputation = 0
        /\ profile.RiskBreakdown.Lending = 0
        /\ SumOffsets(Reasons, "REPUTATION") <= 0
        /\ SumOffsets(Reasons, "LENDING") <= 0
        /\ 2 * profile.RiskScore = profile.RiskBreakdown.Fraud
        /\ profile.RiskScore <= Pts(50)
        /\ profile.RiskGrade # "FAILING (High Risk)"

\* an old wallet that has dealt with the threat: reputation -10 is cut to
\* 0 and the score is half of the fraud score
C29_Witness ==
    /\ Done
    /\ ~SanctionedReply
    /\ SumOffsets(Reasons, "REPUTATION") = Pts(-10)
    /\ profile.RiskBreakdown = [Fraud |-> Pts(55), Reputation |-> 0,
                                Lending |-> 0]
    /\ 2 * profile.RiskScore = Pts(55)
    /\ profile.RiskGrade = "LOW (Neutral)"

\* a step in which Investigate runs
Investigated ==
    invPc = "ready" /\ invPc' = "done"

\* the fields of a profile that are not risk fields and not
\* validationDetails
FetchedFields(p) ==
    <<p.Address, p.Network, p.IsValid, p.IsActive, p.Balance, p.TxCount,
      p.FirstSeen, p.LastSeen>>

\* C32: Investigate never modifies the profile's address, network, isValid,
\* isActive, balance, txCount, firstSeen or lastSeen; besides the four risk
\* fields it changes only validationDetails, by appending the offline
\* warning when the lookup call fails, and leaves it as it is when the
\* lookup succeeds; the transaction list and the engine are left alone.
C32_FrameOfInvestigate ==
    [][Investigated =>
          /\ FetchedFields(profile') = FetchedFields(profile)
          /\ DOMAIN profile' = DOMAIN profile
          /\ profile'.ValidationDetails =
                IF engineCall'.err # ""
                THEN profile.ValidationDetails \o WarnOffline
                ELSE profile.ValidationDetails
          /\ UNCHANGED <<txs, dbEntries, dbMeta>>]_vars

\* a failed lookup for an active wallet with a history: the warning is
\* appended to the details, the fetched fields are as they were
C32_Witness ==
    /\ Done
    /\ engineCall.err # ""
    /\ profile.ValidationDetails = DetailsActive \o WarnOffline
    /\ profile.TxCount = 100
    /\ profile.FirstSeen = [isNil |-> FALSE, t |-> 0 - 120]
    /\ profile.LastSeen = profile.FirstSeen
    /\ profile.IsValid
    /\ profile.RiskGrade # ""

(***************************************************************************)
(* Claims about the /check handler (checked under SpecCheck)               *)
(***************************************************************************)
\* a step in which the handler served a request
Served ==
    lastCheck' # lastCheck

\* C7: check(address) for a non-empty address answers sanctioned = true
\* with the stored currency and source if and only if the committed Store
\* holds an entry whose key equals the address exactly; otherwise it answers
\* sanctioned = false without currency or source, and without an error.
C7_ExactLookup ==
    [][(Served /\ lastCheck'.address # StrEmpty) =>
          LET a == lastCheck'.address
              r == lastCheck'.resp
          IN  /\ r.status = 200
              /\ IF a \in DOMAIN dbEntries
                 THEN /\ r.sanctioned
                      /\ r.detail
                      /\ r.currency = dbEntries[a].currency
                      /\ r.source = dbEntries[a].source
                 ELSE ~r.sanctioned /\ ~r.detail]_vars

\* C7 with the failed query set aside: when the query itself succeeds, the
\* answer is sanctioned = true with the stored currency and source exactly
\* when the committed Store holds the key, compared case-sensitively.
C7_ExactLookupWhenQuerySucceeds ==
    [][(Served /\ lastCheck'.address # StrEmpty /\ lastCheck'.queryOk) =>
          LET a == lastCheck'.address
              r == lastCheck'.resp
          IN  /\ r.status = 200
              /\ IF a \in DOMAIN dbEntries
                 THEN /\ r.sanctioned
                      /\ r.detail
                      /\ r.currency = dbEntries[a].currency
                      /\ r.source = dbEntries[a].source
                 ELSE ~r.sanctioned /\ ~r.detail]_vars

C9_MissingAddressRejected ==
    [][(Served /\ lastCheck'.address = StrEmpty) =>
          /\ lastCheck'.resp.status = 400
          /\ ~lastCheck'.resp.queried
          /\ ~lastCheck'.resp.sanctioned
          /\ UNCHANGED <<dbEntries, dbMeta, txEntries, txMeta>>]_vars

\* a rejected request while the Store holds entries and a marker
C9_Witness ==
    /\ lastCheck.address = StrEmpty
    /\ lastCheck.resp.status = 400
    /\ dbEntries # NoRows
    /\ StoredLastMod(dbMeta) # ""

\* C31: the handler answers every request with a non-empty address with
\* status 200; any failure of the Store query, not only the absence of the
\* row, is answered sanctioned = false without currency or source, also
\* for an address that the Store holds.
C31_QueryFailureAnswersNotSanctioned ==
    [][(Served /\ lastCheck'.address # StrEmpty) =>
          /\ lastCheck'.resp.status = 200
          /\ lastCheck'.resp.queried
          /\ ~lastCheck'.queryOk =>
                /\ ~lastCheck'.resp.sanctioned
                /\ ~lastCheck'.resp.detail
                /\ lastCheck'.resp.currency = StrEmpty
                /\ lastCheck'.resp.source = StrEmpty]_vars

\* the query fails for an address that the committed Store holds
C31_Witness ==
    /\ lastCheck.address \in DOMAIN dbEntries
    /\ ~lastCheck.queryOk
    /\ lastCheck.resp.status = 200
    /\ ~lastCheck.resp.sanctioned

(***************************************************************************)
(* Claims about the refresh cycle (checked under Spec)                     *)
(***************************************************************************)
\* a step in which the freshness check of a cycle is made
FreshnessChecked ==
    syncPc = "CheckingFreshness" /\ syncPc' # "CheckingFreshness"

UpToDateCycle ==
    /\ syncPc' = "Sleeping"
    /\ cycle'.result = "UpToDate"
    /\ cycle'.get = NoResponse
    /\ UNCHANGED <<dbEntries, dbMeta>>
    /\ txEntries' = NoRows

CycleEnds ==
    syncPc # "Sleeping" /\ syncPc' = "Sleeping"

\* the GET of the cycle was made and failed: no connection, or a status
\* outside 2xx
DownloadFailed(c) ==
    c.get # NoResponse /\ (c.get.err \/ c.get.status \notin 200..299)

\* C11: a failed download, whether a connection error or a non-2xx
\* response, aborts the cycle without committing: the Store's entries and
\* SyncMetadata.lastModified are the same after the cycle as before it.
C11_FailedDownloadCommitsNothing ==
    [][(CycleEnds /\ DownloadFailed(cycle')) =>
          /\ dbEntries' = dbEntries
          /\ StoredLastMod(dbMeta') = StoredLastMod(dbMeta)]_vars

\* C12: if the freshness check fails with a network error, the cycle goes
\* on to Downloading; a failed check never ends the cycle.
C12_FailedProbeDownloads ==
    [][(FreshnessChecked /\ cycle'.head.err) =>
          /\ syncPc' = "Downloading"
          /\ cycle'.result = "Running"]_vars

\* the probe fails while the stored marker is the feed's, so that an
\* answered probe would have found the Store up to date
C12_Witness ==
    /\ syncPc = "Downloading"
    /\ cycle.head.err
    /\ feedLastMod # ""
    /\ StoredLastMod(dbMeta) = feedLastMod
    /\ dbEntries # NoRows

\* C14: a cycle that reaches Committing writes the accumulated entries and
\* the new marker in one transaction: when a cycle ends, either the entries
\* it upserted and the marker of its download are both in the Store, or the
\* Store is as it was; the marker changes only in the step that ends a
\* cycle, together with the entries of that cycle.
C14_EntriesAndMarkerTogether ==
    [][/\ CycleEnds =>
             \/ /\ dbEntries' = txEntries
                /\ KeyLastModified \in DOMAIN dbMeta'
                /\ dbMeta'[KeyLastModified] = lastMod
                /\ syncPc = "Committing"
             \/ /\ dbEntries' = dbEntries
                /\ dbMeta' = dbMeta
       /\ dbMeta' # dbMeta =>
             /\ CycleEnds
             /\ dbEntries' = txEntries]_vars

\* C15: entries are never deleted: across refresh cycles of any outcome and
\* lookups the set of stored addresses never shrinks, every lookup answers
\* from the committed rows, and an address that a successful lookup answers
\* sanctioned = true is answered so after every further step.
C15_NeverDeleted ==
    [][/\ DOMAIN dbEntries \subseteq DOMAIN dbEntries'
       /\ \A a \in LookupAddresses :
             checkAddressHandler(a, dbEntries, TRUE).sanctioned
                => checkAddressHandler(a, dbEntries', TRUE).sanctioned
       /\ Served =>
             lastCheck'.resp = checkAddressHandler(lastCheck'.address,
                                                   dbEntries',
                                                   lastCheck'.queryOk)]_vars

\* an address that the feed no longer yields is answered sanctioned = true
\* after a cycle has committed the feed as it is now
C15_Witness ==
    /\ cycle.result = "Committed"
    /\ cycle.get = [err |-> FALSE, status |-> 200, lastMod |-> feedLastMod]
    /\ FeedYield(feedDoc) \subseteq DOMAIN dbEntries
    /\ lastCheck.address \notin FeedYield(feedDoc)
    /\ lastCheck.queryOk
    /\ lastCheck.resp.sanctioned

\* the values of a party that the token loop extracts as addresses, in
\* document order, each with the currency of its feature's identifier
RECURSIVE Extractions(_, _)
Extractions(features, map) ==
    IF features = <<>> THEN <<>>
    ELSE LET f == Head(features)
             Long(v) == Len(TrimSpace(v)) > MinAddrLen
             own == IF f.FeatureTypeID \in DOMAIN map
                    THEN [i \in 1..Len(SelectSeq(f.details, Long)) |->
                            [addr |-> TrimSpace(SelectSeq(f.details, Long)[i]),
                             currency |-> map[f.FeatureTypeID]]]
                    ELSE <<>>
         IN  own \o Extractions(Tail(features), map)

\* the currency of the last extraction of an address
LastCurrency(exts, a) ==
    LET last == CHOOSE i \in 1..Len(exts) :
                    /\ exts[i].addr = a
                    /\ \A j \in (i + 1)..Len(exts) : exts[j].addr # a
    IN  exts[last].currency

\* a turn of the token loop
TokenRead ==
    syncPc = "Parsing" /\ syncPc' = "Parsing" /\ stream' # stream

CycleMoves ==
    { <<"Sleeping", "CheckingFreshness">>,
      <<"CheckingFreshness", "Sleeping">>,
      <<"CheckingFreshness", "Downloading">>,
      <<"Downloading", "Parsing">>,
      <<"Downloading", "Sleeping">>,
      <<"Parsing", "Committing">>,
      <<"Committing", "Sleeping">> }

\* a write transaction is open
TxOpen ==
    syncPc \in {"Parsing", "Committing"}

\* C22: refresh cycles are serialized and follow Idle -> CheckingFreshness
\* -> (UpToDate | Downloading -> Parsing -> Committing) -> Idle: the first
\* freshness check is made at process start before any sleep, a download
\* starts only from the freshness check of its cycle, every cycle ends in
\* the sleep with its outcome, and the one transaction there is is open
\* only between Downloading and the end of its cycle.
C22_CyclesSerialized ==
    [][/\ cycle.result = "None" =>
             (clock = 0 /\ syncPc \in {"CheckingFreshness"})
       /\ syncPc' # syncPc => <<syncPc, syncPc'>> \in CycleMoves
       /\ syncPc' = "Downloading" =>
             (syncPc \in {"CheckingFreshness", "Downloading"}
                /\ cycle'.result = "Running" /\ cycle'.get = NoResponse)
       /\ CycleEnds =>
             cycle'.result \in {"UpToDate", "Committed", "CommittedNoMarker",
                                "Failed"}
       /\ (syncPc = "CheckingFreshness" /\ syncPc' = "Sleeping")
             => cycle'.result = "UpToDate"
       /\ clock' # clock => (syncPc = "Sleeping" /\ clock' = clock + 1)
       /\ ~TxOpen => (txEntries = NoRows /\ txMeta = NoRows /\ stream = <<>>)
       /\ (TxOpen /\ ~TxOpen') => syncPc' = "Sleeping"
       /\ (~TxOpen /\ TxOpen') => syncPc = "Downloading"]_vars

\* the second cycle holds its transaction open after the first has
\* committed and slept
C22_Witness ==
    /\ clock = 1
    /\ syncPc = "Committing"
    /\ cycle.result = "Running"
    /\ dbEntries # NoRows
    /\ txEntries # dbEntries

\* the address candidates of a party record: the trimmed values longer
\* than 10 characters under features whose identifier the map holds, each
\* with the currency the map gives
Candidates(party, map) ==
    UNION { { <<TrimSpace(f.details[i]), map[f.FeatureTypeID]>> :
                i \in {k \in 1..Len(f.details) :
                          Len(TrimSpace(f.details[k])) > 10} } :
            f \in {party.features[n] :
                      n \in {m \in 1..Len(party.features) :
                                party.features[m].FeatureTypeID
                                   \in DOMAIN map}} }

\* C23: for each party record a value is written as an address for currency
\* c if and only if it stands under a feature whose identifier maps to c in
\* the map at that moment and is longer than 10 characters after trimming;
\* shorter values and values under unmapped identifiers are not written, and
\* other elements write nothing.
C23_CandidatesOnly ==
    [][TokenRead =>
          LET se == Head(stream)
              cands == IF se.wellFormed /\ se.kind = "DistinctParty"
                       THEN Candidates(se, cryptoTypeMap) ELSE {}
          IN  /\ \A c \in cands : c[1] \in DOMAIN txEntries'
              /\ \A a \in DOMAIN txEntries :
                    /\ a \in DOMAIN txEntries'
                    /\ (\A c \in cands : c[1] # a)
                          => txEntries'[a] = txEntries[a]
              /\ \A a \in DOMAIN txEntries' :
                    \/ a \in DOMAIN txEntries /\ txEntries'[a] = txEntries[a]
                    \/ \E c \in cands :
                          /\ c[1] = a
                          /\ txEntries'[a].currency = c[2]
              /\ \A a \in DOMAIN txEntries' :
                    Len(a) > 10 /\ a = TrimSpace(a)]_vars

\* the first feed read to its end into an empty Store: the value of 10
\* characters after trimming and the value under the unmapped identifier
\* are left out, the one of 11 characters after trimming is written
C23_Witness ==
    /\ syncPc = "Committing"
    /\ dbEntries = NoRows
    /\ stream = <<>>
    /\ cycle.get.lastMod = "Mon, 02 Nov 2026"
    /\ DOMAIN txEntries = {ValLong, TrimSpace(ValPaddedLong)}
    /\ Len(TrimSpace(ValPadded)) = 10
    /\ txEntries[TrimSpace(ValPaddedLong)].currency = <<"X", "B", "T">>

\* C24: a definition in the feed never overrides the entry of a seeded
\* identifier: while any feed is parsed every seeded identifier maps to its
\* seeded ticker; an element extends the map only when it is a definition
\* whose label contains "Digital Currency Address" and whose identifier the
\* map does not hold, and by that identifier alone; every invocation of the
\* parser starts from the static seed.
C24_SeedNeverOverridden ==
    [][/\ \A id \in DOMAIN SeedTypeMap :
             /\ id \in DOMAIN cryptoTypeMap'
             /\ cryptoTypeMap'[id] = SeedTypeMap[id]
       /\ (syncPc = "Downloading" /\ syncPc' = "Parsing")
             => cryptoTypeMap' = SeedTypeMap
       /\ TokenRead =>
             LET se == Head(stream)
                 learns == /\ se.wellFormed
                           /\ se.kind = "FeatureTypeValue"
                           /\ Contains(se.Value, MarkerDCA)
                           /\ se.ID \notin DOMAIN cryptoTypeMap
             IN  /\ learns => DOMAIN cryptoTypeMap'
                                 = DOMAIN cryptoTypeMap \cup {se.ID}
                 /\ ~learns => cryptoTypeMap' = cryptoTypeMap
                 /\ \A id \in DOMAIN cryptoTypeMap :
                       cryptoTypeMap'[id] = cryptoTypeMap[id]]_vars

\* the feed has defined identifier 344, seeded as XBT, as DOGE, and a new
\* identifier: the first is as seeded, the second is learned
C24_Witness ==
    /\ syncPc = "Parsing"
    /\ Len(stream) = 1
    /\ cycle.get.lastMod = ""
    /\ cycle.get.status = 200
    /\ cryptoTypeMap["344"] = <<"X", "B", "T">>
    /\ DOMAIN cryptoTypeMap = DOMAIN SeedTypeMap \cup {"2002"}

\* the token loop ends
LoopEnds ==
    syncPc = "Parsing" /\ syncPc' = "Committing"

\* C25: a decode failure on one record is skipped without aborting the
\* stream: when the token loop ends after a record failed to decode, the
\* addresses of every well-formed party record that follows it in the
\* stream have been upserted in this cycle.
C25_MalformedRecordSkipped ==
    [][(LoopEnds /\ decoderErr) =>
          \A i \in 1..Len(stream) :
              (stream[i].wellFormed /\ stream[i].kind = "DistinctParty") =>
                  \A c \in Candidates(stream[i], cryptoTypeMap) :
                      /\ c[1] \in DOMAIN txEntries
                      /\ txEntries[c[1]].updated_at = now]_vars

\* the party records of a document
Parties(doc) ==
    {doc[i] : i \in {k \in 1..Len(doc) :
                        doc[k].wellFormed /\ doc[k].kind = "DistinctParty"}}

\* the token loop has read the feed as it is now to its end, with no
\* failure and no break
FeedReadWhole ==
    /\ LoopEnds
    /\ stream = <<>>
    /\ ~decoderErr
    /\ cycle.get = [err |-> FALSE, status |-> 200, lastMod |-> feedLastMod]

\* C26: definitions are applied before party records are processed: when a
\* feed has been read, every address under a party feature whose identifier
\* a "Digital Currency Address" definition of the same feed declares has
\* been extracted with that definition's currency, wherever the definition
\* stands in the stream (the map at the end of the stream holds every
\* definition of the feed).
C26_DefinitionsBeforeParties ==
    [][FeedReadWhole =>
          LET all == UNION {Candidates(p, cryptoTypeMap) :
                               p \in Parties(feedDoc)}
          IN  \A c \in all :
                 /\ c[1] \in DOMAIN txEntries
                 /\ txEntries[c[1]].updated_at = now
                 /\ \E d \in all :
                       d[1] = c[1] /\ txEntries[c[1]].currency = d[2]]_vars

\* the text of a label after its first "-"
AfterFirstDash(label) ==
    LET first == CHOOSE i \in 1..Len(label) :
                     label[i] = "-" /\ \A j \in 1..(i - 1) : label[j] # "-"
    IN  SubSeq(label, first + 1, Len(label))

\* the element read is a definition that the map learns
Learns(se, map) ==
    /\ se.wellFormed
    /\ se.kind = "FeatureTypeValue"
    /\ Contains(se.Value, MarkerDCA)
    /\ se.ID \notin DOMAIN map

\* C27: when a definition whose label contains "Digital Currency Address"
\* is learned, the ticker recorded is the text of the label after its first
\* "-", trimmed, also for labels that hold more than one "-".
C27_TickerAfterFirstDash ==
    [][(TokenRead /\ Learns(Head(stream), cryptoTypeMap)
          /\ \E i \in 1..Len(Head(stream).Value) : Head(stream).Value[i] = "-")
          => cryptoTypeMap'[Head(stream).ID]
                = TrimSpace(AfterFirstDash(Head(stream).Value))]_vars

\* the marker a probe brought: the empty string when the response has no
\* Last-Modified header
ProbedMarker(c) ==
    c.head.lastMod

\* the marker the Store holds: the empty string when it holds none
StoredMarker ==
    IF KeyLastModified \in DOMAIN dbMeta THEN dbMeta[KeyLastModified] ELSE ""

HealthyStep ==
    /\ feedLastMod # ""
    /\ feedDoc' = feedDoc
    /\ feedLastMod' = feedLastMod
    /\ FreshnessChecked =>
          cycle'.head = [err |-> FALSE, status |-> 200,
                         lastMod |-> feedLastMod]
    /\ (syncPc = "Downloading" /\ syncPc' # "Downloading") =>
          /\ syncPc' = "Parsing"
          /\ cycle'.get = [err |-> FALSE, status |-> 200,
                           lastMod |-> feedLastMod]
    /\ (syncPc = "Parsing" /\ syncPc' = "Committing") =>
          (stream = <<>> \/ decoderErr)
    /\ (syncPc = "Committing" /\ syncPc' # "Committing") =>
          cycle'.result = "Committed"

StoreConsistent ==
    FeedYield(feedDoc) \subseteq DOMAIN dbEntries

\* C13: if from some point on the feed no longer changes and the freshness
\* probe and the download succeed, then eventually every address the feed
\* yields is present in the Store, also when an earlier cycle's stream
\* ended prematurely.
C13_EventuallyConsistent ==
    <>[][HealthyStep]_vars => <>[]StoreConsistent

====
